---- MODULE Spec2Model ----
(***************************************************************************)
(* Bulk certificate issuance: the job store, the six-phase pipeline of     *)
(* bulkController.processPipeline, and the nonce-sequenced submission loop *)
(* of blockchainService.issueBatch.                                        *)
(*                                                                         *)
(* Node.js runs one handler at a time; handlers interleave only where an   *)
(* await waits for an external call.  Every action below is the code from  *)
(* the return of one awaited call up to the next awaited call.             *)
(***************************************************************************)
EXTENDS Integers, Sequences, FiniteSets, TLC

\* ------------------------------------------------------------------ bounds
NumJobs == 2        \* jobs of the job store (specification SpecJobs)
MaxRows == 2        \* rows of an uploaded file
MaxRuns == 2        \* accepted processBatch requests
MaxRequests == 3    \* admin requests on one institution application
MaxFaults == 1      \* external calls that fail (a nonce re-fetch is not counted:
                    \* it only happens after a call that failed)

\* errors.slice(0, 50), warnings.slice(0, 50) in the response of uploadCSV
ResponseCap == 50

JobIds == 1..NumJobs

\* ------------------------------------------------------------- JS values
Undefined == "undefined"
Null == "null"

Max(a, b) == IF a > b THEN a ELSE b

\* Math.round(c / n), n > 0: the fraction without the factor 100
PercentUnscaled(c, n) == (2 * c + n) \div (2 * n)

\* Math.round((c / n) * 100), n > 0
Percent(c, n) == (200 * c + n) \div (2 * n)

\* ------------------------------------------------------------- validator
\* A parsed row.  Strings are abstracted to the classes the validator
\* distinguishes: "" (empty), Undefined (column absent), "bad" (unparsable
\* date / malformed address), anything else is a well-formed value.
ValidRow(email) ==
    [studentName |-> "Ann", studentId |-> "S1", degree |-> "BSc",
     institution |-> "MIT", issueDate |-> "2026-06-15", email |-> email]

UploadRows ==
    { ValidRow(Undefined), ValidRow("a@x.io"),
      [ValidRow(Undefined) EXCEPT !.issueDate = "bad"] }

Falsy(s) == s \in {"", Undefined}
TooLong(s) == s = "LONG"
HasDigits(s) == s = "Ann2024"
DateParses(s) == s # "bad"
EmailMatches(s) == s # "bad"

\* An error object that carries the loop index as its row.
ErrAtIndex(field, index) == [field |-> field, row |-> index]

\* { field, message, row: index + 1 }
Err(field, index) == [field |-> field, row |-> index + 1]

validateCertificate(cert, index) ==
    LET eName == IF Falsy(cert.studentName) THEN <<Err("studentName", index)>>
                 ELSE IF TooLong(cert.studentName) THEN <<Err("studentName", index)>>
                 ELSE <<>>
        eId   == IF Falsy(cert.studentId) THEN <<Err("studentId", index)>> ELSE <<>>
        eDeg  == IF Falsy(cert.degree) THEN <<Err("degree", index)>> ELSE <<>>
        eInst == IF Falsy(cert.institution) THEN <<Err("institution", index)>> ELSE <<>>
        eDate == IF Falsy(cert.issueDate) THEN <<Err("issueDate", index)>>
                 ELSE IF ~DateParses(cert.issueDate) THEN <<Err("issueDate", index)>>
                 ELSE <<>>
        wMail == IF ~Falsy(cert.email) /\ ~EmailMatches(cert.email)
                 THEN <<Err("email", index)>> ELSE <<>>
        wName == IF ~Falsy(cert.studentName) /\ HasDigits(cert.studentName)
                 THEN <<Err("studentName", index)>> ELSE <<>>
        errors == eName \o eId \o eDeg \o eInst \o eDate
    IN [valid |-> errors = <<>>, errors |-> errors, warnings |-> wMail \o wName]

\* A validator that reports a repeated student identifier as an error.
PushDuplicatesAsErrors(acc, v, dupId, dupMail) ==
    [errors |-> acc.errors \o dupId \o v.errors,
     warnings |-> acc.warnings \o dupMail \o v.warnings]

\* One round of validateBatch: what it pushes to allErrors and allWarnings
\* (72-95).
PushFindings(acc, v, dupId, dupMail) ==
    [errors |-> acc.errors \o v.errors,
     warnings |-> acc.warnings \o dupId \o dupMail \o v.warnings]

\* The loop of validateBatch over rows 1..n (n = Len(certificates) at the top).
RECURSIVE validateLoop(_, _)
validateLoop(certificates, n) ==
    IF n = 0
    THEN [errors |-> <<>>, warnings |-> <<>>, validRecords |-> <<>>,
          invalidRecords |-> <<>>]
    ELSE LET acc  == validateLoop(certificates, n - 1)
             cert == certificates[n]
             v    == validateCertificate(cert, n - 1)
             dupId == IF ~Falsy(cert.studentId)
                         /\ \E k \in 1..(n - 1) : certificates[k].studentId = cert.studentId
                      THEN <<Err("studentId", n - 1)>> ELSE <<>>
             dupMail == IF ~Falsy(cert.email)
                           /\ \E k \in 1..(n - 1) : certificates[k].email = cert.email
                        THEN <<Err("email", n - 1)>> ELSE <<>>
         IN [errors |-> PushFindings(acc, v, dupId, dupMail).errors,
             warnings |-> PushFindings(acc, v, dupId, dupMail).warnings,
             validRecords |->
                 IF v.valid THEN Append(acc.validRecords, [cert |-> cert, row |-> n])
                 ELSE acc.validRecords,
             invalidRecords |->
                 IF v.valid THEN acc.invalidRecords
                 ELSE Append(acc.invalidRecords, [cert |-> cert, row |-> n])]

validateBatch(certificates) ==
    LET r == validateLoop(certificates, Len(certificates))
    IN [totalRows |-> Len(certificates),
        validCount |-> Len(r.validRecords),
        invalidCount |-> Len(r.invalidRecords),
        hasErrors |-> r.errors # <<>>,
        errors |-> r.errors,
        warnings |-> r.warnings,
        validRecords |-> r.validRecords,
        invalidRecords |-> r.invalidRecords]

RequiredFields == {"studentName", "studentId", "degree", "institution", "issueDate"}

\* A column check that lets a file without rows through.
validateColumnsLax(records) ==
    LET missing == IF Len(records) = 0 THEN {}
                   ELSE {f \in RequiredFields : records[1][f] = Undefined}
    IN [valid |-> missing = {}, missing |-> missing]

validateColumns(records) ==
    IF Len(records) = 0 THEN [valid |-> FALSE, missing |-> {"No data rows found in file"}]
    ELSE LET missing == {f \in RequiredFields : records[1][f] = Undefined}
         IN [valid |-> missing = {}, missing |-> missing]

\* ----------------------------------------------------------------- state
VARIABLES
    jobs,       \* the in-memory job store: job id -> job (NoJob when absent)
    runs,       \* the processPipeline invocations started so far
    netNonce,   \* the network's pending nonce of the signing identity
    faults,     \* external calls that have failed so far
    smtp,       \* SMTP_HOST, SMTP_USER and SMTP_PASS are all set in the environment
    upload,     \* the last uploadCSV request: the parsed file and the response
    response,   \* the response to the last processBatch request
    application, \* the stored InstitutionApplication document of one institution
    handlers    \* the admin requests on that application received so far

\* The bulk issuance state and the admin state.
bulkVars == <<jobs, runs, netNonce, faults, smtp, upload, response>>
adminVars == <<application, handlers>>

vars == <<jobs, runs, netNonce, faults, smtp, upload, response, application, handlers>>

\* A nullable value is a sequence of length 0 (null) or 1.
Nothing == <<>>
Just(x) == <<x>>

Progress(phase, current, total, percent) ==
    Just([phase |-> phase, current |-> current, total |-> total, percent |-> percent])

NoJob ==
    [status |-> "absent", records |-> <<>>, invalidCount |-> 0, progress |-> Nothing,
     results |-> Nothing, summary |-> Nothing, error |-> Nothing]

\* A record of validation.validRecords: { ...cert, _row }, annotated by the
\* pipeline with certId (0 while undefined), documentHash and ipfsHash.
NewCert(v) ==
    [row |-> v.row, email |-> v.cert.email, certId |-> 0,
     documentHash |-> FALSE, ipfsHash |-> Undefined]

\* The locals of one processPipeline call and of the service call it awaits.
NewRun(j) ==
    [job |-> j, pc |-> "start", i |-> 0,
     pdf |-> <<>>,                       \* pdfResults
     bc |-> <<>>, succeeded |-> 0, failed |-> 0,   \* issueBatch: results, counters
     n0 |-> 0, nonce |-> 0, cache |-> 0, \* issueBatch: first fetch, cursor, provider cache
     accepted |-> 0,                     \* submissions of this call the network accepted
     tx |-> 0,                           \* tx.hash of the last accepted submission
     ok |-> <<>>,                        \* successfulCerts, as indices into certs
     qr |-> <<>>,                        \* qrResults
     emailJobs |-> <<>>, sent |-> 0, emailsFailed |-> 0,
     sendEmails |-> FALSE]               \* the parameter, from where PHASE 6 has read it

\* A finished call: its locals are gone.
DoneRun(j) == [NewRun(j) EXCEPT !.pc = "done"]

N(J) == Len(J.records)

\* The result of a step: the job as the step leaves it, and the call's locals.
Out(J, R) == [job |-> J, run |-> R]

\* The numbers of a set in increasing order, as a sequence.
RECURSIVE Ascending(_)
Ascending(S) ==
    IF S = {} THEN <<>>
    ELSE LET m == CHOOSE k \in S : \A n \in S : k <= n
         IN <<m>> \o Ascending(S \ {m})

\* ------------------------------------------------- processPipeline, by phase
\* Each operator is the synchronous code from one point of the pipeline to
\* the next awaited external call; R.i is the loop index i of the source.

\* Compile final results, update job (bulkController.js 228-282).
CompileResultBody(J, R, i) ==
    LET cert == J.records[i + 1]
        bcResult == IF i + 1 <= Len(R.bc) THEN R.bc[i + 1]
                    ELSE [status |-> "skipped", txHash |-> 0]
        pdfResult == IF i + 1 <= Len(R.pdf) THEN R.pdf[i + 1]
                     ELSE [status |-> "skipped"]
        found == {k \in 1..Len(R.qr) : R.qr[k].certId = cert.certId}
        qrStatus == IF found = {} THEN "skipped"
                    ELSE R.qr[CHOOSE k \in found : \A m \in found : k <= m].status
    IN [row |-> cert.row, certId |-> cert.certId, email |-> cert.email,
        blockchain |-> [status |-> bcResult.status, txHash |-> bcResult.txHash],
        pdf |-> pdfResult.status,
        ipfs |-> [hash |-> IF Falsy(cert.ipfsHash) THEN Null ELSE cert.ipfsHash,
                  documentHash |-> cert.documentHash],
        qr |-> [status |-> qrStatus,
                fileName |-> IF qrStatus = "success" THEN cert.certId ELSE 0]]

\* A compile step that numbers the results by their position in the batch.
CompileResultByPosition(J, R, i) ==
    [CompileResultBody(J, R, i) EXCEPT !.row = i + 1]

CompileResult(J, R, i) == CompileResultBody(J, R, i)

Summary(J, R, emailResults) ==
    [total |-> N(J),
     blockchainSuccess |-> R.succeeded,
     blockchainFailed |-> R.failed,
     pdfsGenerated |-> Cardinality({k \in 1..Len(R.pdf) : R.pdf[k].status = "success"}),
     qrCodesGenerated |-> Cardinality({k \in 1..Len(R.qr) : R.qr[k].status = "success"}),
     emailsSent |-> IF emailResults THEN R.sent ELSE 0,
     emailsFailed |-> IF emailResults THEN R.emailsFailed ELSE 0]

\* A rejection that nobody catches: the run ends, the job is left as it was.
RejectUnhandled(J, R, message) == Out(J, DoneRun(R.job))

\* processPipeline rejects: the .catch of processBatch (bulkController.js 129-133).
Reject(J, R, message) ==
    Out([J EXCEPT !.status = "failed", !.error = Just(message)], DoneRun(R.job))

CompleteBody(J, R, emailResults) ==
    Out([J EXCEPT !.status = "completed",
                  !.results = Just([k \in 1..N(J) |-> CompileResult(J, R, k - 1)]),
                  !.summary = Just(Summary(J, R, emailResults)),
                  !.progress = Progress("completed", N(J), N(J), 100)],
        DoneRun(R.job))

\* A pipeline whose last step stores the results and leaves the status alone.
CompleteWithoutStatus(J, R, emailResults) ==
    Out([CompleteBody(J, R, emailResults).job EXCEPT !.status = J.status], DoneRun(R.job))

\* A pipeline that reports a batch without a single issued certificate as failed.
CompleteOrFail(J, R, emailResults) ==
    IF R.succeeded = 0 THEN Reject(J, R, "No certificate was issued")
    ELSE CompleteBody(J, R, emailResults)

Complete(J, R, emailResults) == CompleteBody(J, R, emailResults)

\* emailService.isEmailConfigured (36-38).
isEmailConfigured == smtp

\* A pipeline that hands every record with an address to the sender.
EnterEmailsAll(J, R, ask) ==
    IF ask.sendEmails /\ isEmailConfigured
    THEN LET emailJobs == SelectSeq([k \in 1..N(J) |-> k],
                                    LAMBDA k : ~Falsy(J.records[k].email))
             J1 == [J EXCEPT !.progress = Progress("sending_emails", 0, Len(R.ok), 0)]
         IN IF emailJobs = <<>> THEN Complete(J1, R, TRUE)
            ELSE Out(J1, [R EXCEPT !.pc = "email", !.i = 0, !.emailJobs = emailJobs,
                                   !.sendEmails = ask.sendEmails])
    ELSE Complete(J, R, FALSE)

\* PHASE 6 (205-226), entered when bulkGenerateQR has returned.  The flag of
\* the request is read here and nowhere else: ask.sendEmails.
EnterEmails(J, R, ask) ==
    IF ask.sendEmails /\ isEmailConfigured
    THEN LET emailJobs == SelectSeq(R.ok, LAMBDA k : ~Falsy(J.records[k].email))
             J1 == [J EXCEPT !.progress = Progress("sending_emails", 0, Len(R.ok), 0)]
         IN IF emailJobs = <<>> THEN Complete(J1, R, TRUE)
            ELSE Out(J1, [R EXCEPT !.pc = "email", !.i = 0, !.emailJobs = emailJobs,
                                   !.sendEmails = ask.sendEmails])
    ELSE Complete(J, R, FALSE)

\* PHASE 5 (199-203), entered when issueBatch has returned.
EnterQr(J, R, ask) ==
    LET successfulCerts == Ascending({k \in 1..N(J) : k <= Len(R.bc) /\ R.bc[k].status = "success"})
        J1 == [J EXCEPT !.progress = Progress("generating_qrcodes", 0, N(J), 0)]
        R1 == [R EXCEPT !.ok = successfulCerts, !.qr = <<>>]
    IN IF successfulCerts = <<>> THEN EnterEmails(J1, R1, ask)
       ELSE Out(J1, [R1 EXCEPT !.pc = "qr", !.i = 0])

\* PHASE 4 (192-197): issueBatch is called and awaits the first nonce fetch.
EnterChain(J, R) ==
    Out([J EXCEPT !.progress = Progress("blockchain_issuance", 0, N(J), 0)],
        [R EXCEPT !.pc = "nonce0", !.i = 0, !.bc = <<>>, !.succeeded = 0, !.failed = 0])

\* A pipeline that starts the chain phase as soon as one upload has returned.
IpfsLoopFirstOnly(J, R, i) ==
    IF i >= 1 \/ \A k \in 1..N(J) : R.pdf[k].status # "success"
    THEN EnterChain(J, R)
    ELSE LET k == CHOOSE k \in 0..(N(J) - 1) :
                     /\ R.pdf[k + 1].status = "success"
                     /\ \A m \in 0..(k - 1) : R.pdf[m + 1].status # "success"
         IN Out([J EXCEPT !.progress = Progress("uploading_ipfs", k, N(J), Percent(k, N(J))),
                          !.records[k + 1].documentHash = TRUE],
                [R EXCEPT !.pc = "ipfs", !.i = k])

\* PHASE 3 loop (165-190) from index i: records without a document are
\* passed over, the next record with one awaits uploadBuffer.
IpfsLoop(J, R, i) ==
    LET withDoc == {k \in i..(N(J) - 1) : R.pdf[k + 1].status = "success"}
    IN IF withDoc = {}
       THEN EnterChain(J, R)
       ELSE LET k == CHOOSE k \in withDoc : \A m \in withDoc : k <= m
            IN Out([J EXCEPT !.progress = Progress("uploading_ipfs", k, N(J), Percent(k, N(J))),
                             !.records[k + 1].documentHash = TRUE],
                   [R EXCEPT !.pc = "ipfs", !.i = k])

\* PHASE 2 (155-160): bulkGeneratePDFs is called and awaits puppeteer.launch.
EnterPdfs(J, R) ==
    Out([J EXCEPT !.progress = Progress("generating_pdfs", 0, N(J), 0)],
        [R EXCEPT !.pc = "launch", !.i = 0, !.pdf = <<>>])

\* A loop that draws an identifier for every record, with or without one.
IdsLoopAll(J, R, i) ==
    IF i >= N(J) THEN EnterPdfs(J, R)
    ELSE Out(J, [R EXCEPT !.pc = "gen_id", !.i = i])

\* PHASE 1 loop (149-153) from index i: the next record without a certId
\* awaits generateCertificateId.
IdsLoop(J, R, i) ==
    LET missing == {k \in i..(N(J) - 1) : J.records[k + 1].certId = 0}
    IN IF missing = {}
       THEN EnterPdfs(J, R)
       ELSE Out(J, [R EXCEPT !.pc = "gen_id",
                             !.i = CHOOSE k \in missing : \A m \in missing : k <= m])

\* processPipeline from its first line (142-147).
StartPipeline(J, R) ==
    IdsLoop([J EXCEPT !.progress = Progress("generating_ids", 0, N(J), 0)], R, 0)

\* ------------------------------------------------------ issueBatch, by step
\* The content reference handed to contract.issueCertificate (160):
\* cert.ipfsHash || "".
ContentRef(cert) == IF Falsy(cert.ipfsHash) THEN "" ELSE cert.ipfsHash

\* contract.issueCertificate returned a transaction: nonce++ (165).
IssueAccepted(R) ==
    [R EXCEPT !.nonce = @ + 1, !.accepted = @ + 1, !.tx = R.nonce + 1, !.pc = "wait"]

\* A confirmation that pushes the result and leaves the counter alone.
IssueConfirmedUncounted(J, R) ==
    [R EXCEPT !.bc = Append(@, [index |-> R.i, certId |-> J.records[R.i + 1].certId,
                                status |-> "success", txHash |-> R.tx])]

\* tx.wait returned a receipt (167-177).
IssueConfirmed(J, R) ==
    [R EXCEPT !.succeeded = @ + 1,
              !.bc = Append(@, [index |-> R.i, certId |-> J.records[R.i + 1].certId,
                                status |-> "success", txHash |-> R.tx])]

\* The catch block up to the awaited nonce re-fetch (178-190).
IssueCaughtBody(J, R) ==
    [R EXCEPT !.failed = @ + 1,
              !.bc = Append(@, [index |-> R.i, certId |-> J.records[R.i + 1].certId,
                                status |-> "failed", txHash |-> 0]),
              !.pc = "refetch"]

\* A catch block that counts the failed submission as one that used its nonce.
IssueCaughtIncrements(J, R) == [IssueCaughtBody(J, R) EXCEPT !.nonce = @ + 1]

\* A catch block that gives the batch up after the first failure.
IssueCaughtAborts(J, R) == [IssueCaughtBody(J, R) EXCEPT !.pc = "issued"]

IssueCaught(J, R) == IssueCaughtBody(J, R)

\* Report progress and go round the loop (196-208).
IssueNext(J, R) ==
    Out([J EXCEPT !.progress =
            Progress("blockchain_issuance", R.i + 1, N(J), Percent(R.i + 1, N(J)))],
        IF R.i + 1 < N(J) THEN [R EXCEPT !.pc = "submit", !.i = R.i + 1]
        ELSE [R EXCEPT !.pc = "issued"])

\* ---------------------------------------------------------------- actions
\* The sendEmails flag of the request, drawn by the step that reaches PHASE 6.
Asks == [sendEmails : BOOLEAN]
AsksIf(reached) ==
    IF reached THEN Asks ELSE {[sendEmails |-> FALSE]}

Fault == faults < MaxFaults /\ faults' = faults + 1

Commit(r, out) ==
    /\ jobs' = [jobs EXCEPT ![runs[r].job] = out.job]
    /\ runs' = [runs EXCEPT ![r] = out.run]

\* array.slice(0, n)
Slice(s, n) == SubSeq(s, 1, IF Len(s) < n THEN Len(s) ELSE n)

\* The response of uploadCSV that creates job j (72-83).
UploadAccepted(j, validation) ==
    [code |-> 200, jobId |-> j, error |-> "", missing |-> {},
     totalRows |-> validation.totalRows,
     validCount |-> validation.validCount,
     invalidCount |-> validation.invalidCount,
     hasErrors |-> validation.hasErrors,
     errors |-> Slice(validation.errors, ResponseCap),
     warnings |-> Slice(validation.warnings, ResponseCap)]

\* The response of uploadCSV to a file that fails the column check (42-46).
UploadRejected(colCheck) ==
    [code |-> 400, jobId |-> 0, error |-> "Missing required columns",
     missing |-> colCheck.missing,
     totalRows |-> 0, validCount |-> 0, invalidCount |-> 0, hasErrors |-> FALSE,
     errors |-> <<>>, warnings |-> <<>>]

\* uploadCSV (26-85), for a file that parses; j is the fresh job id.
UploadCSV(j, records) ==
    /\ jobs[j].status = "absent"
    /\ \A k \in 1..(j - 1) : jobs[k].status # "absent"
    /\ LET colCheck == validateColumns(records)
           validation == validateBatch(records)
       IN IF ~colCheck.valid
          THEN /\ upload' = [file |-> records, reply |-> UploadRejected(colCheck)]
               /\ UNCHANGED jobs
          ELSE /\ upload' = [file |-> records, reply |-> UploadAccepted(j, validation)]
               /\ jobs' = [jobs EXCEPT ![j] =
                     [NoJob EXCEPT !.status = "validated",
                                   !.records = [k \in 1..validation.validCount |->
                                                   NewCert(validation.validRecords[k])],
                                   !.invalidCount = validation.invalidCount]]
    /\ UNCHANGED <<runs, netNonce, faults, smtp, response, adminVars>>

\* processBatch without its test for a job that is already processing.
AcceptsWhileProcessing(J) ==
    /\ J.status # "absent"
    /\ N(J) # 0

\* The checks of processBatch (96-109).
Accepts(J) ==
    /\ J.status # "absent"
    /\ J.status # "processing"
    /\ N(J) # 0

\* The body of a processBatch response.
Response(jobId, code, error) == Just([jobId |-> jobId, code |-> code, error |-> error])

\* processBatch (92-138) for an accepted request, with the part of
\* processPipeline that runs before its first await.
ProcessBatch(j) ==
    /\ Len(runs) < MaxRuns
    /\ Accepts(jobs[j])
    /\ LET J == [jobs[j] EXCEPT !.status = "processing",
                                !.progress = Progress("starting", 0, N(jobs[j]), 0)]
           out == StartPipeline(J, NewRun(j))
       IN /\ jobs' = [jobs EXCEPT ![j] = out.job]
          /\ runs' = Append(runs, out.run)
    /\ response' = Response(j, 200, "")
    /\ UNCHANGED <<netNonce, faults, smtp, upload, adminVars>>

\* jobId 0 is a request without a jobId; an identifier whose job is absent
\* is not in the store.
RequestIds == {0} \cup JobIds

\* The early returns of processBatch (96-109): the response, or Nothing when
\* the request passes every check.
Rejection(jobId) ==
    IF jobId = 0 THEN Response(jobId, 400, "jobId is required")
    ELSE IF jobs[jobId].status = "absent" THEN Response(jobId, 404, "Job not found")
    ELSE IF jobs[jobId].status = "processing"
         THEN Response(jobId, 409, "Job is already being processed")
    ELSE IF N(jobs[jobId]) = 0 THEN Response(jobId, 400, "No valid records to process")
    ELSE Nothing

\* A processBatch that marks the job as processing before it looks at the
\* number of its records.
ProcessBatchMarksFirst(jobId) ==
    /\ Rejection(jobId) # Nothing
    /\ response' = Rejection(jobId)
    /\ IF jobId # 0 /\ jobs[jobId].status \notin {"absent", "processing"}
       THEN jobs' = [jobs EXCEPT ![jobId].status = "processing"]
       ELSE UNCHANGED jobs
    /\ UNCHANGED <<runs, netNonce, faults, smtp, upload, adminVars>>

\* processBatch (92-109) for a request that one of its checks turns away.
ProcessBatchRejected(jobId) ==
    /\ Rejection(jobId) # Nothing
    /\ response' = Rejection(jobId)
    /\ UNCHANGED <<jobs, runs, netNonce, faults, smtp, upload, adminVars>>

\* generateCertificateId returns (85-92): the identifier is drawn at random;
\* a draw either repeats an identifier in use or is the next unused one.
GenerateId(r) ==
    LET R == runs[r]
        J == jobs[R.job]
    IN /\ R.pc = "gen_id"
       /\ \/ \E c \in 1..(MaxRows * NumJobs) :
                /\ \A d \in 1..(c - 1) :
                      \E j \in JobIds : \E k \in 1..N(jobs[j]) : jobs[j].records[k].certId = d
                /\ Commit(r, IdsLoop([J EXCEPT !.records[R.i + 1].certId = c], R, R.i + 1))
                /\ UNCHANGED faults
          \/ Fault /\ Commit(r, Reject(J, R, "getTotalCertificates"))
       /\ UNCHANGED <<netNonce, smtp, upload, response, adminVars>>

\* puppeteer.launch returns (pdfService.js 160-169).
LaunchBrowser(r) ==
    LET R == runs[r]
        J == jobs[R.job]
    IN /\ R.pc = "launch"
       /\ \/ Commit(r, Out(J, [R EXCEPT !.pc = "pdf", !.i = 0])) /\ UNCHANGED faults
          \/ Fault /\ Commit(r, Reject(J, R, "launch"))
       /\ UNCHANGED <<netNonce, smtp, upload, response, adminVars>>

\* One round of the loop of bulkGeneratePDFs (pdfService.js 169-220).
RenderPdf(r) ==
    LET R == runs[r]
        J == jobs[R.job]
        Next(status) ==
            Out([J EXCEPT !.progress =
                    Progress("generating_pdfs", R.i + 1, N(J), Percent(R.i + 1, N(J)))],
                [R EXCEPT !.pdf = Append(@, [certId |-> J.records[R.i + 1].certId,
                                             status |-> status]),
                          !.i = R.i + 1,
                          !.pc = IF R.i + 1 < N(J) THEN "pdf" ELSE "close"])
    IN /\ R.pc = "pdf"
       /\ \/ Commit(r, Next("success")) /\ UNCHANGED faults
          \/ Fault /\ Commit(r, Next("failed"))
       /\ UNCHANGED <<netNonce, smtp, upload, response, adminVars>>

\* browser.close returns (pdfService.js 221-225); PHASE 3 begins.
CloseBrowser(r) ==
    LET R == runs[r]
        J == jobs[R.job]
    IN /\ R.pc = "close"
       /\ \/ /\ Commit(r, IpfsLoop([J EXCEPT !.progress =
                                        Progress("uploading_ipfs", 0, N(J), 0)], R, 0))
             /\ UNCHANGED faults
          \/ Fault /\ Commit(r, Reject(J, R, "close"))
       /\ UNCHANGED <<netNonce, smtp, upload, response, adminVars>>

\* A handler that overwrites the content identifier of every record of the batch.
IpfsAssignAll(J, R, hash) ==
    [J EXCEPT !.records = [k \in 1..N(J) |-> [J.records[k] EXCEPT !.ipfsHash = hash]]]

\* certs[i].ipfsHash = ipfsResult.ipfsHash (176), or "" in the catch (180).
IpfsAssign(J, R, hash) == [J EXCEPT !.records[R.i + 1].ipfsHash = hash]

\* uploadBuffer returns or throws (bulkController.js 171-190).
UploadIpfs(r) ==
    LET R == runs[r]
        J == jobs[R.job]
        Next(hash) ==
            IpfsLoop([IpfsAssign(J, R, hash) EXCEPT
                          !.progress = Progress("uploading_ipfs", R.i + 1, N(J),
                                                Percent(R.i + 1, N(J)))],
                     R, R.i + 1)
    IN /\ R.pc = "ipfs"
       /\ \/ Commit(r, Next("Qm")) /\ UNCHANGED faults
          \/ Fault /\ Commit(r, Next(""))
       /\ UNCHANGED <<netNonce, smtp, upload, response, adminVars>>

\* signer.getNonce("pending") returns for the first time (143): a fresh
\* provider has nothing cached.
FetchNonce(r) ==
    LET R == runs[r]
        J == jobs[R.job]
    IN /\ R.pc = "nonce0"
       /\ \/ /\ Commit(r, Out(J, [R EXCEPT !.n0 = netNonce, !.nonce = netNonce,
                                            !.cache = netNonce, !.pc = "submit"]))
             /\ UNCHANGED faults
          \/ Fault /\ Commit(r, Reject(J, R, "getNonce"))
       /\ UNCHANGED <<netNonce, smtp, upload, response, adminVars>>

\* contract.issueCertificate(..., { nonce }) returns a transaction or throws
\* (153-165, 178).  The network's pending nonce passes every accepted nonce.
Submit(r) ==
    LET R == runs[r]
        J == jobs[R.job]
    IN /\ R.pc = "submit"
       /\ \/ /\ Commit(r, Out(J, IssueAccepted(R)))
             /\ netNonce' = Max(netNonce, R.nonce + 1)
             /\ UNCHANGED faults
          \/ Fault /\ Commit(r, Out(J, IssueCaught(J, R))) /\ UNCHANGED netNonce
       /\ UNCHANGED <<smtp, upload, response, adminVars>>

\* tx.wait returns a receipt or throws (167, 178).
Confirm(r) ==
    LET R == runs[r]
        J == jobs[R.job]
    IN /\ R.pc = "wait"
       /\ \/ Commit(r, IssueNext(J, IssueConfirmed(J, R))) /\ UNCHANGED faults
          \/ Fault /\ Commit(r, Out(J, IssueCaught(J, R)))
       /\ UNCHANGED <<netNonce, smtp, upload, response, adminVars>>

\* The re-fetch of the catch block returns (189-193): the network's pending
\* nonce, or the answer the provider still has cached, or an error.
Refetch(r) ==
    LET R == runs[r]
        J == jobs[R.job]
    IN /\ R.pc = "refetch"
       /\ \/ Commit(r, IssueNext(J, [R EXCEPT !.nonce = netNonce, !.cache = netNonce]))
          \/ /\ R.cache # netNonce
             /\ Commit(r, IssueNext(J, [R EXCEPT !.nonce = R.cache]))
          \/ Commit(r, IssueNext(J, R))
       /\ UNCHANGED <<netNonce, faults, smtp, upload, response, adminVars>>

\* issueBatch returns (208); PHASE 5 begins.
ReturnBatch(r) ==
    LET R == runs[r]
        J == jobs[R.job]
    IN /\ R.pc = "issued"
       /\ \E ask \in AsksIf(\A k \in 1..Len(R.bc) : R.bc[k].status # "success") :
             Commit(r, EnterQr(J, R, ask))
       /\ UNCHANGED <<netNonce, faults, smtp, upload, response, adminVars>>

\* One round of the loop of bulkGenerateQR (qrService.js 106-122).
GenerateQr(r) ==
    LET R == runs[r]
        J == jobs[R.job]
        Next(status, ask) ==
            LET R1 == [R EXCEPT !.qr = Append(@, [certId |-> J.records[R.ok[R.i + 1]].certId,
                                                  status |-> status]),
                                !.i = R.i + 1]
            IN IF R.i + 1 < Len(R.ok) THEN Out(J, R1) ELSE EnterEmails(J, R1, ask)
    IN /\ R.pc = "qr"
       /\ \E ask \in AsksIf(R.i + 1 = Len(R.ok)) :
             \/ Commit(r, Next("success", ask)) /\ UNCHANGED faults
             \/ Fault /\ Commit(r, Next("failed", ask))
       /\ UNCHANGED <<netNonce, smtp, upload, response, adminVars>>

\* One round of the loop of bulkSendEmails (emailService.js 160-186):
\* sendCertificateEmail resolves to sent or not sent, or throws before its
\* try block (83-128).
SendEmail(r) ==
    LET R == runs[r]
        J == jobs[R.job]
        Next(R1) ==
            LET J1 == [J EXCEPT !.progress =
                          Progress("sending_emails", R.i + 1, Len(R.emailJobs),
                                   Percent(R.i + 1, Len(R.emailJobs)))]
            IN IF R.i + 1 < Len(R.emailJobs) THEN Out(J1, [R1 EXCEPT !.i = R.i + 1])
               ELSE Complete(J1, R1, TRUE)
    IN /\ R.pc = "email"
       /\ \/ Commit(r, Next([R EXCEPT !.sent = @ + 1])) /\ UNCHANGED faults
          \/ Fault /\ Commit(r, Next([R EXCEPT !.emailsFailed = @ + 1]))
          \/ Fault /\ Commit(r, Reject(J, R, "sendCertificateEmail"))
       /\ UNCHANGED <<netNonce, smtp, upload, response, adminVars>>

\* A getJobStatus that copies summary and results whatever the status.
getJobStatusAlways(j) ==
    LET J == jobs[j]
    IN [code |-> 200, status |-> J.status, totalRecords |-> N(J), progress |-> J.progress,
        keys |-> {"jobId", "status", "fileName", "totalRecords", "createdAt", "progress",
                  "completedAt", "summary", "results"}
                 \cup (IF J.status = "failed" THEN {"error"} ELSE {}),
        summary |-> J.summary, results |-> J.results,
        error |-> IF J.status = "failed" THEN J.error ELSE Nothing]

\* getJobStatus (297-325) reads the store and answers at once: the response
\* for job j in the current state.  keys are the keys of the JSON object.
getJobStatus(j) ==
    LET J == jobs[j]
    IN IF J.status = "absent"
       THEN [code |-> 404, status |-> "absent", totalRecords |-> 0, progress |-> Nothing,
             keys |-> {"error"}, summary |-> Nothing, results |-> Nothing,
             error |-> Just("Job not found")]
       ELSE [code |-> 200, status |-> J.status, totalRecords |-> N(J),
             progress |-> J.progress,
             keys |-> {"jobId", "status", "fileName", "totalRecords", "createdAt", "progress"}
                      \cup (IF J.status = "completed"
                            THEN {"completedAt", "summary", "results"} ELSE {})
                      \cup (IF J.status = "failed" THEN {"error"} ELSE {}),
             summary |-> IF J.status = "completed" THEN J.summary ELSE Nothing,
             results |-> IF J.status = "completed" THEN J.results ELSE Nothing,
             error |-> IF J.status = "failed" THEN J.error ELSE Nothing]

Init ==
    /\ jobs = [j \in JobIds |-> NoJob]
    /\ runs = <<>>
    /\ netNonce = 0
    /\ faults = 0
    /\ smtp \in BOOLEAN
    /\ upload = [file |-> <<>>, reply |-> Nothing]
    /\ response = Nothing
    /\ application = [status |-> "pending", authorizedOnChain |-> FALSE]
    /\ handlers = <<>>

\* The files of Spec and SpecJobs all pass the column check.
Uploads ==
    UNION {[1..n -> UploadRows] : n \in 1..MaxRows}

\* One job, uploaded once and processed up to MaxRuns times.
Next ==
    \/ \E records \in Uploads : UploadCSV(1, records)
    \/ ProcessBatch(1)
    \/ \E r \in 1..Len(runs) : GenerateId(r)
    \/ \E r \in 1..Len(runs) : LaunchBrowser(r)
    \/ \E r \in 1..Len(runs) : RenderPdf(r)
    \/ \E r \in 1..Len(runs) : CloseBrowser(r)
    \/ \E r \in 1..Len(runs) : UploadIpfs(r)
    \/ \E r \in 1..Len(runs) : FetchNonce(r)
    \/ \E r \in 1..Len(runs) : Submit(r)
    \/ \E r \in 1..Len(runs) : Confirm(r)
    \/ \E r \in 1..Len(runs) : Refetch(r)
    \/ \E r \in 1..Len(runs) : ReturnBatch(r)
    \/ \E r \in 1..Len(runs) : GenerateQr(r)
    \/ \E r \in 1..Len(runs) : SendEmail(r)

Spec == Init /\ [][Next]_vars

\* NumJobs jobs of one record each, processed side by side: every job signs
\* with the one PRIVATE_KEY of the process (blockchainService.js 62, 70-73).
JobUploads == {<<ValidRow("a@x.io")>>}

NextJobs ==
    \/ \E j \in JobIds, records \in JobUploads : UploadCSV(j, records)
    \/ \E j \in JobIds : ProcessBatch(j)
    \/ \E r \in 1..Len(runs) : GenerateId(r)
    \/ \E r \in 1..Len(runs) : LaunchBrowser(r)
    \/ \E r \in 1..Len(runs) : RenderPdf(r)
    \/ \E r \in 1..Len(runs) : CloseBrowser(r)
    \/ \E r \in 1..Len(runs) : UploadIpfs(r)
    \/ \E r \in 1..Len(runs) : FetchNonce(r)
    \/ \E r \in 1..Len(runs) : Submit(r)
    \/ \E r \in 1..Len(runs) : Confirm(r)
    \/ \E r \in 1..Len(runs) : Refetch(r)
    \/ \E r \in 1..Len(runs) : ReturnBatch(r)
    \/ \E r \in 1..Len(runs) : GenerateQr(r)
    \/ \E r \in 1..Len(runs) : SendEmail(r)

SpecJobs == Init /\ [][NextJobs]_vars

\* The rows of the files of SpecUpload: also a second student identifier, a
\* malformed address, an empty name, a row without the degree column.
UploadFileRows ==
    UploadRows \cup
    { [ValidRow(Undefined) EXCEPT !.studentId = "S2"],
      ValidRow("bad"),
      [ValidRow(Undefined) EXCEPT !.studentName = ""],
      [ValidRow(Undefined) EXCEPT !.degree = Undefined] }

UploadFiles ==
    UNION {[1..n -> UploadFileRows] : n \in 0..MaxRows}

\* Upload requests alone, until one creates the job: the validator on every
\* file of UploadFiles.
NextUpload ==
    \E records \in UploadFiles : UploadCSV(1, records)

SpecUpload == Init /\ [][NextUpload]_vars

\* The step of run r that its awaited call enables.
Step(r) ==
    /\ r <= Len(runs)
    /\ \/ GenerateId(r) \/ LaunchBrowser(r) \/ RenderPdf(r) \/ CloseBrowser(r)
       \/ UploadIpfs(r) \/ FetchNonce(r) \/ Submit(r) \/ Confirm(r) \/ Refetch(r)
       \/ ReturnBatch(r) \/ GenerateQr(r) \/ SendEmail(r)

\* Every awaited external call returns or throws in the end, and the event
\* loop then resumes the pipeline that awaits it.
FairSpec == Spec /\ \A r \in 1..MaxRuns : WF_vars(Step(r))

\* ------------------------------------------------------------------ claims
Exists(j) == jobs[j].status # "absent"
ActiveRuns(j) == {r \in 1..Len(runs) : runs[r].job = j /\ runs[r].pc # "done"}
EndedRuns(j) == {r \in 1..Len(runs) : runs[r].job = j /\ runs[r].pc = "done"}
InIssueBatch(R) == R.pc \in {"nonce0", "submit", "wait", "refetch"}

\* The response of getJobStatus carries one result per record, the i-th with
\* the _row of the i-th record.
JoinIntegrity(j) ==
    LET resp == getJobStatus(j)
    IN /\ resp.results # Nothing
       /\ Len(resp.results[1]) = N(jobs[j])
       /\ \A i \in 1..N(jobs[j]) : resp.results[1][i].row = jobs[j].records[i].row

\* C1 as stated: every accepted run of a job ends with getJobStatus
\* reporting completed, with one result per record and the i-th result's
\* row equal to the _row of the i-th record.
C1_Original ==
    \A j \in JobIds :
        (EndedRuns(j) # {} /\ ActiveRuns(j) = {})
            => (getJobStatus(j).status = "completed" /\ JoinIntegrity(j))

\* C1 amended: a job that is processing is eventually reported completed or
\* failed, and whenever it is reported completed the response carries one
\* result per record, the i-th with the _row of the i-th record.
C1_Amended ==
    /\ \A j \in JobIds :
          (jobs[j].status = "processing")
              ~> (getJobStatus(j).status \in {"completed", "failed"})
    /\ [](\A j \in JobIds : getJobStatus(j).status = "completed" => JoinIntegrity(j))

\* A completed job whose first record came from the second row of the file.
C1_Witness ==
    \E j \in JobIds :
        /\ getJobStatus(j).status = "completed"
        /\ JoinIntegrity(j)
        /\ jobs[j].records[1].row = 2

\* Record k (1-based) of run R has been handed to contract.issueCertificate.
Submitted(R, k) ==
    \/ k <= Len(R.bc)
    \/ R.pc \in {"submit", "wait"} /\ R.i = k - 1

\* C2: a record whose document stage failed is never submitted to the chain
\* by the batch run, and its compiled result carries no chain outcome
\* (blockchain status neither success nor failed, txHash null).
C2_DocumentGate ==
    /\ \A r \in 1..Len(runs) : \A k \in 1..Len(runs[r].pdf) :
          runs[r].pdf[k].status = "failed" => ~Submitted(runs[r], k)
    /\ \A j \in JobIds :
          jobs[j].status = "completed" =>
              \A i \in 1..N(jobs[j]) :
                  LET res == jobs[j].results[1][i]
                  IN res.pdf = "failed" =>
                        /\ res.blockchain.status \notin {"success", "failed"}
                        /\ res.blockchain.txHash = 0

\* C3: in every completed job, a record whose chain result is failed has no
\* secondary artifact: qr.status is not success and qr.fileName is null.
C3_ArtifactGate ==
    \A j \in JobIds :
        jobs[j].status = "completed" =>
            \A i \in 1..N(jobs[j]) :
                LET res == jobs[j].results[1][i]
                IN res.blockchain.status = "failed" =>
                      (res.qr.status # "success" /\ res.qr.fileName = 0)

\* C4: when issueBatch returns, its nonce cursor has advanced from the first
\* fetched nonce by exactly the number of submissions the network accepted.
C4_CursorAdvance ==
    \A r \in 1..Len(runs) :
        runs[r].pc = "issued" => runs[r].nonce = runs[r].n0 + runs[r].accepted

\* The results of issueBatch while it runs over n records and when it returns.
ResultsInStep(R, n) ==
    /\ Len(R.bc) = (CASE R.pc \in {"submit", "wait"} -> R.i
                      [] R.pc = "refetch" -> R.i + 1
                      [] OTHER -> n)
    /\ R.succeeded + R.failed = Len(R.bc)
    /\ \A k \in 1..Len(R.bc) :
          /\ R.bc[k].index = k - 1
          /\ R.bc[k].status \in {"success", "failed"}

\* C5: issueBatch over N records returns exactly N results, result i having
\* index i and status success or failed, each written once; an error at
\* submission, at confirmation or in the nonce re-fetch never keeps the later
\* records from being attempted.
C5_IssueBatchResults ==
    /\ [](\A r \in 1..Len(runs) :
            runs[r].pc \in {"submit", "wait", "refetch", "issued"}
                => ResultsInStep(runs[r], N(jobs[runs[r].job])))
    /\ [][\A r \in 1..Len(runs) :
            (runs[r].pc \in {"submit", "wait", "refetch"} /\ runs'[r].pc # "done")
                => /\ Len(runs'[r].bc) >= Len(runs[r].bc)
                   /\ \A k \in 1..Len(runs[r].bc) : runs'[r].bc[k] = runs[r].bc[k]]_vars

\* issueBatch has returned although its first record failed: the second
\* record was attempted all the same.
C5_Witness ==
    \E r \in 1..Len(runs) :
        /\ runs[r].pc = "issued"
        /\ Len(runs[r].bc) = 2
        /\ runs[r].bc[1].status = "failed"
        /\ runs[r].bc[2].status = "success"

\* C6: at most one pipeline run is active for a job at any time, and while
\* one is active a processBatch request for that job is rejected.
C6_OneRunPerJob ==
    \A j \in JobIds :
        /\ Cardinality(ActiveRuns(j)) <= 1
        /\ ActiveRuns(j) # {} => ~Accepts(jobs[j])

\* A run is active, and only the checks of processBatch keep a second
\* request for the job from starting another.
C6_Witness ==
    \E j \in JobIds :
        /\ ActiveRuns(j) # {}
        /\ jobs[j].status = "processing"
        /\ Len(runs) < MaxRuns

\* C7: at most one issueBatch loop is active per signing identity at any
\* time, across all jobs.
C7_OneSubmitter ==
    Cardinality({r \in 1..Len(runs) : InIssueBatch(runs[r])}) <= 1

StatusSteps ==
    {<<"absent", "validated">>, <<"validated", "processing">>,
     <<"processing", "completed">>, <<"processing", "failed">>}

\* C8: a job's status only changes along validated -> processing ->
\* completed | failed; once completed or failed it never changes again.
C8_TerminalIsFinal ==
    [][\A j \in JobIds :
          jobs'[j].status # jobs[j].status
              => <<jobs[j].status, jobs'[j].status>> \in StatusSteps]_vars

\* C9: a getJobStatus response contains results and summary exactly when it
\* reports completed, and error only when it reports failed; a response that
\* reports completed carries the full result list and the summary.
C9_ResponseShape ==
    \A j \in JobIds :
        Exists(j) =>
            LET resp == getJobStatus(j)
            IN /\ ("results" \in resp.keys) <=> (resp.status = "completed")
               /\ ("summary" \in resp.keys) <=> (resp.status = "completed")
               /\ ("error" \in resp.keys) => (resp.status = "failed")
               /\ resp.status = "completed" =>
                     /\ resp.results # Nothing
                     /\ Len(resp.results[1]) = resp.totalRecords
                     /\ resp.summary # Nothing
                     /\ resp.summary[1].total = resp.totalRecords
               /\ resp.status # "completed" =>
                     (resp.results = Nothing /\ resp.summary = Nothing)

\* A job that completed once fails when processed again: the store still
\* holds the results of the first run, the response holds the error only.
C9_Witness ==
    \E j \in JobIds :
        /\ jobs[j].status = "failed"
        /\ jobs[j].results # Nothing
        /\ getJobStatus(j).results = Nothing
        /\ "error" \in getJobStatus(j).keys

\* C10: when the chain stage has failed for every record and no exception
\* escaped, the run ends with the job completed and one result per record.
C10_AllFailedCompletes ==
    [][\A r \in 1..Len(runs) :
          (runs[r].pc = "issued" /\ runs[r].succeeded = 0 /\ runs'[r].pc # "issued")
              => LET J == jobs'[runs[r].job]
                 IN /\ J.status = "completed"
                    /\ J.results # Nothing
                    /\ Len(J.results[1]) = N(J)
                    /\ \A i \in 1..N(J) : J.results[1][i].blockchain.status = "failed"]_vars

\* A completed job none of whose records was issued.
C10_Witness ==
    \E j \in JobIds :
        /\ jobs[j].status = "completed"
        /\ N(jobs[j]) >= 1
        /\ \A i \in 1..N(jobs[j]) : jobs[j].results[1][i].blockchain.status = "failed"

\* The step of run r in which the call it awaits throws.
Throws(r) ==
    /\ r <= Len(runs)
    /\ faults' = faults + 1
    /\ runs'[r] # runs[r]

\* C11: an exception that escapes a phase outside its per-record handling
\* (generateCertificateId, puppeteer.launch, the first getNonce) ends the run
\* with the job failed and a top-level error, no later phase is executed,
\* and getJobStatus returns that error and no results.
C11_SystemicFailure ==
    /\ [](\A j \in JobIds :
            jobs[j].status = "failed" =>
                LET resp == getJobStatus(j)
                IN /\ resp.status = "failed"
                   /\ resp.error # Nothing /\ resp.error = jobs[j].error
                   /\ "error" \in resp.keys
                   /\ resp.results = Nothing /\ "results" \notin resp.keys
                   /\ ActiveRuns(j) = {})
    /\ [][\A r \in 1..MaxRuns :
            (Throws(r) /\ runs[r].pc \in {"gen_id", "launch", "nonce0"})
                => LET j == runs[r].job
                   IN /\ jobs'[j].status = "failed"
                      /\ jobs'[j].error # Nothing
                      /\ jobs'[j].progress = jobs[j].progress
                      /\ jobs'[j].records = jobs[j].records
                      /\ runs'[r].pc = "done"]_vars

\* The first nonce fetch threw: the job is failed in the blockchain phase,
\* with the records as the earlier phases left them.
C11_Witness ==
    \E j \in JobIds :
        /\ jobs[j].status = "failed"
        /\ getJobStatus(j).error = Just("getNonce")
        /\ jobs[j].progress = Progress("blockchain_issuance", 0, N(jobs[j]), 0)
        /\ ActiveRuns(j) = {}

\* C12: a content-store failure on a record leaves an empty content
\* identifier on that record only and does not end the run; the record is
\* still submitted, with an empty content reference; in a completed job it
\* has a null content identifier and, where the chain accepted it, a
\* transaction hash.
C12_StoreFailure ==
    /\ [](\A r \in 1..Len(runs) :
            LET R == runs[r]
                J == jobs[R.job]
            IN /\ R.pc = "submit" /\ J.records[R.i + 1].ipfsHash = ""
                    => ContentRef(J.records[R.i + 1]) = ""
               /\ R.pc = "issued"
                    => \A k \in 1..N(J) :
                          J.records[k].ipfsHash = ""
                             => (k <= Len(R.bc) /\ R.bc[k].index = k - 1))
    /\ [](\A j \in JobIds :
            jobs[j].status = "completed" =>
                \A i \in 1..N(jobs[j]) :
                    LET res == jobs[j].results[1][i]
                    IN jobs[j].records[i].ipfsHash = ""
                          => /\ res.ipfs.hash = Null
                             /\ res.blockchain.status \in {"success", "failed"}
                             /\ res.blockchain.status = "success"
                                    => res.blockchain.txHash # 0)
    /\ [][\A r \in 1..MaxRuns :
            (Throws(r) /\ runs[r].pc = "ipfs")
                => LET j == runs[r].job
                       i == runs[r].i + 1
                   IN /\ jobs'[j].records[i].ipfsHash = ""
                      /\ \A k \in 1..N(jobs[j]) \ {i} :
                            jobs'[j].records[k].ipfsHash = jobs[j].records[k].ipfsHash
                      /\ jobs'[j].status = "processing"
                      /\ runs'[r].pc \in {"ipfs", "nonce0"}]_vars

\* The store failed for every record of a completed job, and the chain
\* accepted every record.
C12_Witness ==
    \E j \in JobIds :
        /\ jobs[j].status = "completed"
        /\ \A i \in 1..N(jobs[j]) :
              /\ jobs[j].records[i].ipfsHash = ""
              /\ jobs[j].results[1][i].ipfs.hash = Null
              /\ jobs[j].results[1][i].blockchain.status = "success"
              /\ jobs[j].results[1][i].blockchain.txHash # 0

\* What a compiled result reports about the notification of its record: the
\* object built at bulkController.js 235-266 has the keys of CompileResult.
NotificationResult(res) ==
    IF "notification" \in DOMAIN res THEN res.notification ELSE Undefined

\* The notifying phase is not entered and nothing is reported as failed.
NotifyingSkipped ==
    /\ \A r \in 1..Len(runs) : runs[r].pc # "email"
    /\ \A j \in JobIds :
          /\ jobs[j].progress # Nothing => jobs[j].progress[1].phase # "sending_emails"
          /\ jobs[j].status = "completed" =>
                (jobs[j].summary[1].emailsSent = 0 /\ jobs[j].summary[1].emailsFailed = 0)

\* C13: when the notification subsystem is unconfigured, the sending_emails
\* phase is never entered and no send is attempted, whatever the sendEmails
\* flag, and every record's notification result is reported as skipped.
C13_UnconfiguredSkipped ==
    ~smtp =>
        /\ NotifyingSkipped
        /\ \A j \in JobIds :
              jobs[j].status = "completed" =>
                  \A i \in 1..N(jobs[j]) :
                      NotificationResult(jobs[j].results[1][i]) = "skipped"

\* C14: the identifier-assignment phase is idempotent: a record that has a
\* certificate identifier keeps exactly that identifier, also when the job
\* is processed again; only a record without an identifier receives one.
C14_IdsIdempotent ==
    /\ [](\A r \in 1..Len(runs) :
            runs[r].pc = "gen_id"
                => jobs[runs[r].job].records[runs[r].i + 1].certId = 0)
    /\ [][\A j \in JobIds : \A k \in 1..N(jobs[j]) :
            jobs[j].records[k].certId # 0
                => jobs'[j].records[k].certId = jobs[j].records[k].certId]_vars

\* The job is processed a second time after its first run failed between
\* the identifiers of the first and the second record: the second run draws
\* an identifier for the second record only.
C14_Witness ==
    /\ Len(runs) = 2
    /\ runs[1].pc = "done"
    /\ runs[2].pc = "gen_id"
    /\ runs[2].i = 1
    /\ jobs[runs[2].job].records[1].certId # 0

\* Row n (1-based) of file f repeats the student identifier of an earlier row.
RepeatsId(f, n) ==
    /\ ~Falsy(f[n].studentId)
    /\ \E k \in 1..(n - 1) : f[k].studentId = f[n].studentId

\* Row n of file f is valid taken alone.
ValidAlone(f, n) == validateCertificate(f[n], n - 1).valid

\* C15: a student identifier repeated across the rows of a batch produces
\* warnings only, never an error: a row that repeats an identifier is valid
\* exactly if it is valid taken alone, and then it is among the records of
\* the job, eligible for processing.
C15_DuplicateIdsWarn ==
    upload.reply # Nothing /\ upload.reply.code = 200 =>
        LET f == upload.file
            reply == upload.reply
            J == jobs[reply.jobId]
        IN \A n \in 1..Len(f) :
              RepeatsId(f, n) =>
                 /\ \E w \in 1..Len(reply.warnings) :
                       reply.warnings[w] = Err("studentId", n - 1)
                 /\ \A e \in 1..Len(reply.errors) :
                       reply.errors[e] # Err("studentId", n - 1)
                 /\ ValidAlone(f, n) <=> (\E k \in 1..N(J) : J.records[k].row = n)
                 /\ reply.validCount = Cardinality({m \in 1..Len(f) : ValidAlone(f, m)})

\* A file of two valid rows with the same student identifier: one warning,
\* no error, both rows among the records of the job.
C15_Witness ==
    /\ upload.reply # Nothing
    /\ upload.reply.code = 200
    /\ Len(upload.file) = 2
    /\ RepeatsId(upload.file, 2)
    /\ upload.reply.warnings = <<Err("studentId", 1)>>
    /\ ~upload.reply.hasErrors
    /\ N(jobs[upload.reply.jobId]) = 2

AllRowsInvalid(f) == Len(f) >= 1 /\ \A n \in 1..Len(f) : ~ValidAlone(f, n)

\* The response to a file without rows: the structural error, no job.
NoDataRows(reply) ==
    /\ reply.code = 400
    /\ reply.missing = {"No data rows found in file"}
    /\ reply.jobId = 0

\* The response to a file of n rows none of which is valid, and the job it
\* created.
NoneValid(reply, n) ==
    /\ reply.code = 200
    /\ reply.validCount = 0 /\ reply.invalidCount = n /\ reply.totalRows = n
    /\ jobs[reply.jobId].status = "validated"
    /\ N(jobs[reply.jobId]) = 0
    /\ jobs[reply.jobId].invalidCount = n

\* C16 as stated: an upload of zero rows is rejected with the structural
\* 'no data rows' error and creates no job; an upload of N >= 1 rows that
\* are all invalid creates a validated job with validCount = 0 and
\* invalidCount = N.
C16_Original ==
    upload.reply # Nothing =>
        /\ Len(upload.file) = 0 => (NoDataRows(upload.reply) /\ jobs[1].status = "absent")
        /\ AllRowsInvalid(upload.file) => NoneValid(upload.reply, Len(upload.file))

\* C16 amended: the second outcome is that of a file whose first row has
\* every required column; a file of invalid rows that lacks one is rejected
\* with the missing columns, which are never the 'no data rows' marker, and
\* creates no job either.
C16_Amended ==
    /\ [](upload.reply # Nothing =>
            LET f == upload.file
                reply == upload.reply
            IN /\ Len(f) = 0 => NoDataRows(reply)
               /\ AllRowsInvalid(f) /\ validateColumns(f).valid => NoneValid(reply, Len(f))
               /\ Len(f) >= 1 /\ ~validateColumns(f).valid =>
                     /\ reply.code = 400 /\ reply.jobId = 0
                     /\ reply.missing \subseteq RequiredFields
                     /\ reply.missing # {}
               /\ Len(f) >= 1 => ~NoDataRows(reply))
    /\ [][upload'.reply # Nothing /\ upload'.reply.code = 400 => jobs' = jobs]_vars

\* A file of two invalid rows, each with every required column, created a
\* job without records.
C16_Witness ==
    /\ upload.reply # Nothing
    /\ Len(upload.file) = 2
    /\ AllRowsInvalid(upload.file)
    /\ NoneValid(upload.reply, 2)

\* The number of compiled results of job J whose blockchain status is s.
ChainCount(J, s) ==
    Cardinality({i \in 1..Len(J.results[1]) : J.results[1][i].blockchain.status = s})

\* C17: in every completed job, summary.blockchainSuccess and
\* summary.blockchainFailed are the numbers of results whose blockchain
\* status is success and failed, and their sum is summary.total.
C17_SummaryCounts ==
    \A j \in JobIds :
        jobs[j].status = "completed" =>
            LET s == jobs[j].summary[1]
            IN /\ s.blockchainSuccess = ChainCount(jobs[j], "success")
               /\ s.blockchainFailed = ChainCount(jobs[j], "failed")
               /\ s.blockchainSuccess + s.blockchainFailed = s.total
               /\ s.total = N(jobs[j])

\* Two records, the second rejected before acceptance (the network has
\* accepted one submission in all): blockchainSuccess = 1, blockchainFailed = 1.
C17_Witness ==
    \E j \in JobIds :
        /\ jobs[j].status = "completed"
        /\ Len(runs) = 1
        /\ netNonce = 1
        /\ N(jobs[j]) = 2
        /\ jobs[j].results[1][1].blockchain.status = "success"
        /\ jobs[j].results[1][2].blockchain.status = "failed"
        /\ jobs[j].summary[1].blockchainSuccess = 1
        /\ jobs[j].summary[1].blockchainFailed = 1

\* C18: when tx.wait of an accepted submission fails, issueBatch does not
\* re-synchronize the nonce cursor from the network: it goes on to the next
\* record (or returns) with the value the post-acceptance increment reached.
C18_NoResyncAfterAcceptance ==
    [][\A r \in 1..MaxRuns :
          (Throws(r) /\ runs[r].pc = "wait")
              => /\ runs'[r].pc \in {"submit", "issued"}
                 /\ runs'[r].nonce = runs[r].nonce]_vars

\* The cursor after the re-fetch of the catch block: the network's pending
\* nonce, the answer the provider had cached, or the old value when the
\* re-fetch itself threw.
Refreshed(R) == {netNonce, R.cache, R.nonce}

\* C19: when a submission raises an error before the network accepted it,
\* issueBatch does not increment the cursor, pushes a failed result for the
\* record without retrying it, re-fetches the pending nonce, and goes on to
\* the next record with the refreshed value.
C19_ResyncBeforeAcceptance ==
    /\ [][\A r \in 1..MaxRuns :
            (Throws(r) /\ runs[r].pc = "submit")
                => /\ runs'[r].pc = "refetch"
                   /\ runs'[r].nonce = runs[r].nonce
                   /\ runs'[r].accepted = runs[r].accepted
                   /\ netNonce' = netNonce
                   /\ runs'[r].i = runs[r].i
                   /\ Len(runs'[r].bc) = runs[r].i + 1
                   /\ runs'[r].bc[runs[r].i + 1].status = "failed"]_vars
    /\ [][\A r \in 1..MaxRuns :
            (r <= Len(runs) /\ runs[r].pc = "refetch" /\ runs'[r] # runs[r])
                => /\ runs'[r].nonce \in Refreshed(runs[r])
                   /\ runs'[r].bc = runs[r].bc
                   /\ \/ runs'[r].pc = "submit" /\ runs'[r].i = runs[r].i + 1
                      \/ runs'[r].pc = "issued"]_vars

\* The first record was refused before acceptance and the second record is
\* about to be submitted with the re-fetched pending nonce.
C19_Witness ==
    \E r \in 1..Len(runs) :
        /\ runs[r].pc = "submit"
        /\ runs[r].i = 1
        /\ runs[r].bc[1].status = "failed"
        /\ runs[r].accepted = 0
        /\ runs[r].nonce = netNonce

\* C20: the nonce cursor of one issueBatch run never decreases between the
\* first fetch and the return of issueBatch.
C20_CursorMonotone ==
    [][\A r \in 1..MaxRuns :
          (r <= Len(runs)
             /\ runs[r].pc \in {"submit", "wait", "refetch"}
             /\ runs'[r].pc \in {"submit", "wait", "refetch", "issued"})
              => runs'[r].nonce >= runs[r].nonce]_vars

\* The phases of progress.phase in the order of processPipeline.
PhaseRank(progress) ==
    IF progress = Nothing THEN 0
    ELSE CASE progress[1].phase = "starting" -> 1
           [] progress[1].phase = "generating_ids" -> 2
           [] progress[1].phase = "generating_pdfs" -> 3
           [] progress[1].phase = "uploading_ipfs" -> 4
           [] progress[1].phase = "blockchain_issuance" -> 5
           [] progress[1].phase = "generating_qrcodes" -> 6
           [] progress[1].phase = "sending_emails" -> 7
           [] progress[1].phase = "completed" -> 8
           [] OTHER -> 9

AfterIds == {"launch", "pdf", "close", "ipfs", "nonce0", "submit", "wait", "refetch",
             "issued", "qr", "email"}
AfterPdfs == AfterIds \ {"launch", "pdf", "close"}
AfterIpfs == AfterPdfs \ {"ipfs"}
AfterChain == {"qr", "email"}

\* Run R of job J has finished, for every record, the phases before the one
\* it is in, and has started none of the work of the chain phase before
\* that phase.
PhaseBarrier(J, R) ==
    /\ R.pc \in AfterIds => \A k \in 1..N(J) : J.records[k].certId # 0
    /\ R.pc \in {"start", "gen_id"} => R.pdf = <<>>
    /\ R.pc \in AfterPdfs => Len(R.pdf) = N(J)
    /\ R.pc \in AfterIpfs =>
          \A k \in 1..N(J) :
              R.pdf[k].status = "success" =>
                  (J.records[k].documentHash /\ J.records[k].ipfsHash # Undefined)
    /\ R.pc \notin AfterIpfs \cup {"done"} => (R.bc = <<>> /\ R.accepted = 0)
    /\ R.pc \in AfterChain => Len(R.bc) = N(J)
    /\ R.pc \notin AfterChain \cup {"done"} => R.qr = <<>>
    /\ R.pc = "email" => Len(R.qr) = Len(R.ok)

\* C21: within one run the phases execute in the order ids, documents,
\* content storage, chain submission, secondary artifacts, notification,
\* completed: progress.phase never moves backwards, and no work of a later
\* phase starts before every record has finished the earlier phase.
C21_PhaseOrder ==
    /\ [](\A r \in 1..Len(runs) : PhaseBarrier(jobs[runs[r].job], runs[r]))
    /\ [][\A r \in 1..Len(runs) :
            runs[r].pc # "done"
                => PhaseRank(jobs'[runs[r].job].progress)
                       >= PhaseRank(jobs[runs[r].job].progress)]_vars

\* The chain phase is about to submit the first of two records, both with a
\* document, the second of which was the last to be stored.
C21_Witness ==
    \E r \in 1..Len(runs) :
        LET J == jobs[runs[r].job]
        IN /\ runs[r].pc = "submit"
           /\ runs[r].i = 0
           /\ N(J) = 2
           /\ \A k \in 1..2 : runs[r].pdf[k].status = "success"
           /\ J.progress[1].phase = "blockchain_issuance"

\* C22: a record is handed to the sender only if its chain submission
\* succeeded, it has a contact address, the notification subsystem is
\* configured and notification was requested.
C22_NotificationGate ==
    \A r \in 1..Len(runs) :
        LET R == runs[r]
            J == jobs[R.job]
        IN \A e \in 1..Len(R.emailJobs) :
              LET k == R.emailJobs[e]
              IN /\ R.pc = "email"
                 /\ R.bc[k].status = "success"
                 /\ ~Falsy(J.records[k].email)
                 /\ isEmailConfigured
                 /\ R.sendEmails

\* Of two issued records the sender is given the one with an address alone.
C22_Witness ==
    \E r \in 1..Len(runs) :
        LET R == runs[r]
            J == jobs[R.job]
        IN /\ R.pc = "email"
           /\ N(J) = 2
           /\ Len(R.ok) = 2
           /\ Len(R.emailJobs) = 1
           /\ \E k \in 1..2 : Falsy(J.records[k].email)

\* C23: whatever goes wrong while sending for a record, the run goes on: the
\* job is not failed by a step of the notification phase, and it ends
\* completed with the chain, document and artifact outcome of every record
\* as they were before the phase.
C23_NotificationNeverFails ==
    [][\A r \in 1..Len(runs) :
          runs[r].pc = "email"
              => LET J == jobs'[runs[r].job]
                     R == runs[r]
                 IN /\ J.status # "failed"
                    /\ J.status = "completed" =>
                          \A i \in 1..N(J) :
                              /\ J.results[1][i] = CompileResult(jobs[R.job], R, i - 1)
                              /\ J.summary[1].emailsSent + J.summary[1].emailsFailed
                                     = Len(R.emailJobs)]_vars

\* ------------------------------------------------- requests that are refused
\* The files of SpecRequests: one row, valid or not.
RequestUploads ==
    { <<ValidRow("a@x.io")>>, <<[ValidRow(Undefined) EXCEPT !.issueDate = "bad"]>> }

\* One job and every processBatch request, accepted or not, next to the
\* pipeline runs of the job.
NextRequests ==
    \/ \E records \in RequestUploads : UploadCSV(1, records)
    \/ ProcessBatch(1)
    \/ \E jobId \in RequestIds : ProcessBatchRejected(jobId)
    \/ \E r \in 1..Len(runs) : GenerateId(r)
    \/ \E r \in 1..Len(runs) : LaunchBrowser(r)
    \/ \E r \in 1..Len(runs) : RenderPdf(r)
    \/ \E r \in 1..Len(runs) : CloseBrowser(r)
    \/ \E r \in 1..Len(runs) : UploadIpfs(r)
    \/ \E r \in 1..Len(runs) : FetchNonce(r)
    \/ \E r \in 1..Len(runs) : Submit(r)
    \/ \E r \in 1..Len(runs) : Confirm(r)
    \/ \E r \in 1..Len(runs) : Refetch(r)
    \/ \E r \in 1..Len(runs) : ReturnBatch(r)
    \/ \E r \in 1..Len(runs) : GenerateQr(r)
    \/ \E r \in 1..Len(runs) : SendEmail(r)

SpecRequests == Init /\ [][NextRequests]_vars

\* C24: a processBatch request refused for a structural reason (no jobId,
\* unknown job, job already processing, job without valid records) is
\* answered in the step of the request with the response of that reason,
\* starts no pipeline run and leaves every job as it was.
C24_RejectedRequestFrame ==
    [][(response' # response /\ response'[1].code # 200)
          => /\ response' = Rejection(response'[1].jobId)
             /\ response'[1].code \in {400, 404, 409}
             /\ runs' = runs
             /\ jobs' = jobs]_vars

\* A request for the job was refused while a run of the job was active.
C24_Witness ==
    /\ response # Nothing
    /\ response[1].code = 409
    /\ jobs[1].status = "processing"
    /\ \E r \in 1..Len(runs) : runs[r].pc = "wait"

\* C25: in every state, a job's stored result set is present only while its
\* status is completed, and its stored error only while its status is failed.
C25_StoredTerminalFields ==
    \A j \in JobIds :
        /\ jobs[j].results # Nothing => jobs[j].status = "completed"
        /\ jobs[j].error # Nothing => jobs[j].status = "failed"

\* The rows of a list of validated records, in the order of the list.
RowsOf(recs) == [k \in 1..Len(recs) |-> recs[k].row]

Increasing(s) == \A a, b \in 1..Len(s) : a < b => s[a] < s[b]

\* C26: validateBatch places every input row in exactly one of validRecords
\* and invalidRecords, a row being valid exactly when no error is reported
\* for it, whatever its warnings; the _row of a record and the row of an
\* error are the 1-based position of the row in the input, the order of the
\* input is kept, and validCount + invalidCount = totalRows.
C26_ValidateBatchPartition ==
    upload.reply # Nothing =>
        LET f == upload.file
            v == validateBatch(f)
            valid == RowsOf(v.validRecords)
            invalid == RowsOf(v.invalidRecords)
            rows(s) == {s[k] : k \in 1..Len(s)}
        IN /\ v.totalRows = Len(f)
           /\ v.validCount = Len(v.validRecords)
           /\ v.invalidCount = Len(v.invalidRecords)
           /\ v.validCount + v.invalidCount = v.totalRows
           /\ rows(valid) \cup rows(invalid) = 1..Len(f)
           /\ rows(valid) \cap rows(invalid) = {}
           /\ Increasing(valid) /\ Increasing(invalid)
           /\ \A k \in 1..Len(valid) : v.validRecords[k].cert = f[valid[k]]
           /\ \A k \in 1..Len(invalid) : v.invalidRecords[k].cert = f[invalid[k]]
           /\ \A p \in 1..Len(f) :
                 (p \in rows(valid)) <=> (\A e \in 1..Len(v.errors) : v.errors[e].row # p)
           /\ \A e \in 1..Len(v.errors) : v.errors[e].row \in 1..Len(f)
           /\ \A a, b \in 1..Len(v.errors) : a < b => v.errors[a].row <= v.errors[b].row
           /\ upload.reply.code = 200 =>
                 RowsOf(jobs[1].records) = valid

\* A file whose first row is invalid and whose second row is valid although
\* a warning is reported for it: the job holds the second row alone.
C26_Witness ==
    /\ upload.reply # Nothing
    /\ upload.reply.code = 200
    /\ upload.reply.validCount = 1
    /\ upload.reply.invalidCount = 1
    /\ jobs[1].records[1].row = 2
    /\ \E w \in 1..Len(upload.reply.warnings) : upload.reply.warnings[w].row = 2
    /\ \E e \in 1..Len(upload.reply.errors) : upload.reply.errors[e].row = 1

\* C27: within one issueBatch run the nonces supplied to successively
\* accepted submissions are strictly increasing: the nonce of an accepted
\* submission is above the nonce of the accepted submission before it
\* (R.tx - 1), whatever the re-fetches in between have returned.
C27_AcceptedNoncesIncrease ==
    [][\A r \in 1..Len(runs) :
          (runs[r].pc = "submit" /\ runs'[r].pc = "wait" /\ runs[r].accepted > 0)
              => runs[r].nonce > runs[r].tx - 1]_vars

\* C28: provided every awaited external call returns or throws in the end,
\* every accepted run ends, and the job it leaves is completed or failed:
\* no job stays processing once its run has ended.
C28_RunsTerminate ==
    /\ \A r \in 1..MaxRuns :
          (r <= Len(runs) /\ runs[r].pc # "done")
              ~> (r <= Len(runs) /\ runs[r].pc = "done")
    /\ [](\A j \in JobIds :
            (Exists(j) /\ ActiveRuns(j) = {} /\ EndedRuns(j) # {})
                => jobs[j].status \in {"completed", "failed"})

\* Every accepted run of the job has ended, the first one failed by an
\* exception, the last one completed.
C28_Witness ==
    /\ Len(runs) = MaxRuns
    /\ \A r \in 1..Len(runs) : runs[r].pc = "done"
    /\ faults >= 1
    /\ jobs[1].status = "completed"
    /\ jobs[1].error # Nothing

\* The progress descriptor p is within its ranges.
ProgressInRange(p) ==
    /\ 0 <= p.current /\ p.current <= p.total
    /\ 0 <= p.percent /\ p.percent <= 100
    /\ (p.current = p.total /\ p.total > 0) => p.percent = 100

\* C29: from the moment a job is processing its progress descriptor has
\* 0 <= current <= total and 0 <= percent <= 100, with percent = 100
\* whenever current = total > 0; within one phase of a run current never
\* decreases; in a completed job the descriptor is phase completed with
\* current = total = number of records and percent = 100.
C29_ProgressDescriptor ==
    /\ [](\A j \in JobIds :
            /\ jobs[j].status \in {"processing", "completed", "failed"} =>
                  (jobs[j].progress # Nothing /\ ProgressInRange(jobs[j].progress[1]))
            /\ jobs[j].status = "completed" =>
                  jobs[j].progress = Progress("completed", N(jobs[j]), N(jobs[j]), 100))
    /\ [][\A j \in JobIds :
            (/\ Len(runs') = Len(runs)
             /\ jobs[j].progress # Nothing
             /\ jobs'[j].progress # Nothing
             /\ jobs'[j].progress[1].phase = jobs[j].progress[1].phase)
                => jobs'[j].progress[1].current >= jobs[j].progress[1].current]_vars

\* Half of a batch of two has been through the chain phase.
C29_Witness ==
    \E j \in JobIds :
        /\ jobs[j].status = "processing"
        /\ jobs[j].progress = Progress("blockchain_issuance", 1, 2, 50)

\* ------------------------------------------- admin: institution applications
\* The admin handlers on the application of one institution.  A handler
\* holds the document as findById returned it; document.save() writes the
\* paths whose value the handler has changed since, and no other path.
Handler(kind, pc, read) == [kind |-> kind, pc |-> pc, read |-> read]

SetHandler(h, pc) == handlers' = [handlers EXCEPT ![h].pc = pc]

\* document.save(): $set of the modified paths.
Saved(read, doc) ==
    [status |-> IF doc.status # read.status THEN doc.status ELSE application.status,
     authorizedOnChain |->
         IF doc.authorizedOnChain # read.authorizedOnChain THEN doc.authorizedOnChain
         ELSE application.authorizedOnChain]

\* approveApplication up to the call of authorizeInstitution (95-127).
ApproveReceived ==
    /\ Len(handlers) < MaxRequests
    /\ handlers' = Append(handlers,
          IF application.status = "approved" THEN Handler("approve", "done", Nothing)
          ELSE Handler("approve", "authorize", Just(application)))
    /\ UNCHANGED <<application, bulkVars>>

\* authorizeInstitution returns or throws (117-134).
ApproveAuthorized(h) ==
    /\ handlers[h].kind = "approve" /\ handlers[h].pc = "authorize"
    /\ \/ SetHandler(h, "save")
       \/ SetHandler(h, "done")
    /\ UNCHANGED <<application, bulkVars>>

\* application.save() of approveApplication is applied (136-142).
ApproveSaved(h) ==
    /\ handlers[h].kind = "approve" /\ handlers[h].pc = "save"
    /\ application' = Saved(handlers[h].read[1],
                            [status |-> "approved", authorizedOnChain |-> TRUE])
    /\ SetHandler(h, "done")
    /\ UNCHANGED bulkVars

\* rejectApplication up to application.save() (179-201); a request without
\* a reason is answered 400 before the document is read.
RejectReceived(reason) ==
    /\ Len(handlers) < MaxRequests
    /\ handlers' = Append(handlers,
          IF ~reason \/ application.status = "approved"
          THEN Handler("reject", "done", Nothing)
          ELSE Handler("reject", "save", Just(application)))
    /\ UNCHANGED <<application, bulkVars>>

\* application.save() of rejectApplication is applied (196-201).
RejectSaved(h) ==
    /\ handlers[h].kind = "reject" /\ handlers[h].pc = "save"
    /\ application' = Saved(handlers[h].read[1],
                            [handlers[h].read[1] EXCEPT !.status = "rejected"])
    /\ SetHandler(h, "done")
    /\ UNCHANGED bulkVars

\* deauthorizeInstitution up to the chain call (289-297).
DeauthorizeReceived ==
    /\ Len(handlers) < MaxRequests
    /\ handlers' = Append(handlers, Handler("deauthorize", "chain", Nothing))
    /\ UNCHANGED <<application, bulkVars>>

\* blockchainService.deauthorizeInstitution returns or throws (296-303).
DeauthorizeReturned(h) ==
    /\ handlers[h].kind = "deauthorize" /\ handlers[h].pc = "chain"
    /\ \/ SetHandler(h, "update")
       \/ SetHandler(h, "done")
    /\ UNCHANGED <<application, bulkVars>>

\* findOneAndUpdate is applied (306-315).
DeauthorizeUpdated(h) ==
    /\ handlers[h].kind = "deauthorize" /\ handlers[h].pc = "update"
    /\ application' = [status |-> "rejected", authorizedOnChain |-> FALSE]
    /\ SetHandler(h, "done")
    /\ UNCHANGED bulkVars

NextAdmin ==
    \/ ApproveReceived
    \/ \E reason \in BOOLEAN : RejectReceived(reason)
    \/ DeauthorizeReceived
    \/ \E h \in 1..Len(handlers) : ApproveAuthorized(h)
    \/ \E h \in 1..Len(handlers) : ApproveSaved(h)
    \/ \E h \in 1..Len(handlers) : RejectSaved(h)
    \/ \E h \in 1..Len(handlers) : DeauthorizeReturned(h)
    \/ \E h \in 1..Len(handlers) : DeauthorizeUpdated(h)

SpecAdmin == Init /\ [][NextAdmin]_vars

\* C30: the stored authorizedOnChain flag of an application is true exactly
\* when its stored status is approved, whatever the interleaving of
\* approveApplication, rejectApplication and deauthorizeInstitution requests.
C30_FlagMatchesStatus ==
    application.authorizedOnChain <=> (application.status = "approved")
====
